---- MODULE Spec2Model ----
(***************************************************************************)
(* EfficientUnetPlusPlus (segmentation_models_pytorch/efficientunetplusplus *)
(* /model.py): the constructor's wiring of encoder, decoder and heads, and *)
(* the predict entry point.                                                *)
(***************************************************************************)
EXTENDS Integers, Sequences, FiniteSets, TLC

(* ---------------------------------------------------------------- bounds *)
MaxDepth == 6
MaxClasses == 2
MaxBatch == 2

(* ------------------------------------------------------- program values *)
\* an absent optional value; Some(v) is a present one
None == << >>
Some(v) == <<v>>
NoActivation == "None"

\* default of the decoder_channels parameter
DefaultDecoderChannels == <<256, 128, 64, 32, 16>>

\* default of the in_channels parameter
DefaultInChannels == 3

\* kernel_size passed to SegmentationHead
HeadKernelSize == 3

\* lower and upper end of the documented encoder_depth range
MinEncoderDepth == 3
MaxEncoderDepth == 5

\* names bound in the module's global namespace by its import statements and
\* its class statement
ModuleGlobals ==
    {"Optional", "Union", "List", "EfficientUnetPlusPlusDecoder", "get_encoder",
     "SegmentationModel", "SegmentationHead", "ClassificationHead", "transforms",
     "EfficientUnetPlusPlus"}

\* a global name lookup succeeds iff the name is bound in the module
Resolves(name) == name \in ModuleGlobals

(* --------------------------------------------------- constructor inputs *)
ChannelVals == {16, 32}

RECURSIVE SeqsOfLen(_)
SeqsOfLen(n) ==
    IF n = 0 THEN {<< >>}
    ELSE {Append(s, c) : s \in SeqsOfLen(n - 1), c \in ChannelVals}

DecoderChannelInputs ==
    {SubSeq(DefaultDecoderChannels, 1, n) : n \in 0..Len(DefaultDecoderChannels)}
        \cup UNION {SeqsOfLen(n) : n \in 0..MaxDepth}

DepthInputs == 0..MaxDepth
ClassesInputs == 0..MaxClasses
ActivationInputs == {NoActivation, "sigmoid"}
AuxInputs == {None, Some([classes |-> 2])}
EncoderNameInputs == {"timm-efficientnet-b5"}

\* input tensors: (batch_size, channels, height, width)
HeightVals == {32, 64}
WidthVals == {32}
TensorInputs ==
    {<<b, DefaultInChannels, h, w>> : b \in 1..MaxBatch, h \in HeightVals, w \in WidthVals}

ConstructorInputs ==
    [encoder_name : EncoderNameInputs,
     encoder_depth : DepthInputs,
     decoder_channels : DecoderChannelInputs,
     in_channels : {DefaultInChannels},
     classes : ClassesInputs,
     activation : ActivationInputs,
     aux_params : AuxInputs]

(* ------------------------------------------------------------ the state *)
VARIABLES
    status,               \* "new": no constructor call yet; "built"; "failed"
    error,                \* the exception a failed constructor call ended in
    args,                 \* the arguments of the constructor call
    classes,              \* self.classes
    encoder,              \* self.encoder
    decoder,              \* self.decoder
    segmentation_head,    \* self.segmentation_head
    classification_head,  \* self.classification_head
    name,                 \* self.name
    training,             \* self.training
    grad_enabled,         \* the thread's gradient-recording mode
    op,                   \* the operation performed last
    last                  \* what the last predict call did

fields == <<classes, encoder, decoder, segmentation_head, classification_head, name>>
vars == <<status, error, args, classes, encoder, decoder, segmentation_head,
          classification_head, name, training, grad_enabled, op, last>>

(* ----------------------------------------------- collaborators' results *)
Ok(v) == [ok |-> TRUE, err |-> "", val |-> Some(v)]
Raise(e) == [ok |-> FALSE, err |-> e, val |-> None]

\* channel counts of the backbone's five stages
EncoderStageChannels == <<48, 40, 64, 176, 512>>

Min(a, b) == IF a < b THEN a ELSE b

\* get_encoder: validates depth against the documented range and returns an
\* encoder whose out_channels has one entry for the input and one per stage
get_encoder(encoder_name, in_channels, depth) ==
    IF depth < MinEncoderDepth \/ depth > MaxEncoderDepth
    THEN Raise("ValueError")
    ELSE Ok([name |-> encoder_name,
             depth |-> depth,
             out_channels |-> <<in_channels>> \o
                 SubSeq(EncoderStageChannels, 1, Min(depth, Len(EncoderStageChannels)))])

\* EfficientUnetPlusPlusDecoder: validates that decoder_channels has one entry
\* per block and keeps what it was built with
EfficientUnetPlusPlusDecoder(encoder_channels, decoder_channels, n_blocks) ==
    IF n_blocks # Len(decoder_channels)
    THEN Raise("ValueError")
    ELSE Ok([encoder_channels |-> encoder_channels,
             decoder_channels |-> decoder_channels,
             n_blocks |-> n_blocks])

\* channel count of the last block the decoder builds
LastBlockChannels(dec) == dec.decoder_channels[dec.n_blocks]

(* ------------------------------------------------------ the constructor *)
\* depth=encoder_depth in the get_encoder call
EncoderDepthArg_default(encoder_depth) == MaxEncoderDepth
EncoderDepthArg(encoder_depth) == encoder_depth

\* encoder_channels=self.encoder.out_channels in the decoder call
DecoderEncoderChannels_args(enc) == SubSeq(enc.out_channels, 2, Len(enc.out_channels))
DecoderEncoderChannels(enc) == enc.out_channels

\* n_blocks=encoder_depth in the decoder call
DecoderNBlocks_default(encoder_depth) == Len(DefaultDecoderChannels)
DecoderNBlocks(encoder_depth) == encoder_depth

\* in_channels=decoder_channels[-1] in the SegmentationHead call
SegHeadInChannels_first(decoder_channels) == decoder_channels[1]
SegHeadInChannels(decoder_channels) == decoder_channels[Len(decoder_channels)]

\* SegmentationHead(in_channels=decoder_channels[-1], out_channels=classes, ...)
SegmentationHead(decoder_channels, cls, activation) ==
    IF Len(decoder_channels) = 0
    THEN Raise("IndexError")
    ELSE Ok([in_channels |-> SegHeadInChannels(decoder_channels),
             out_channels |-> cls,
             activation |-> activation,
             kernel_size |-> HeadKernelSize])

\* the aux_params branch
ClassificationHeadOf_always(enc, aux_params) ==
    Some([in_channels |-> enc.out_channels[Len(enc.out_channels)],
          params |-> IF aux_params = None THEN [classes |-> 1] ELSE aux_params[1]])
ClassificationHeadOf(enc, aux_params) ==
    IF aux_params # None
    THEN Some([in_channels |-> enc.out_channels[Len(enc.out_channels)],
               params |-> aux_params[1]])
    ELSE None

\* "EfficientUNet++-{}".format(encoder_name)
ModelName(encoder_name) == <<"EfficientUNet++-", encoder_name>>

\* __init__: the fields of the model built from a, or the exception raised
Construct(a) ==
    LET e == get_encoder(a.encoder_name, a.in_channels, EncoderDepthArg(a.encoder_depth))
    IN IF ~e.ok THEN Raise(e.err) ELSE
    LET enc == e.val[1]
        d == EfficientUnetPlusPlusDecoder(DecoderEncoderChannels(enc), a.decoder_channels,
                 DecoderNBlocks(a.encoder_depth))
    IN IF ~d.ok THEN Raise(d.err) ELSE
    LET h == SegmentationHead(a.decoder_channels, a.classes, a.activation)
    IN IF ~h.ok THEN Raise(h.err) ELSE
       Ok([classes |-> a.classes,
           encoder |-> enc,
           decoder |-> d.val[1],
           segmentation_head |-> h.val[1],
           classification_head |-> ClassificationHeadOf(enc, a.aux_params),
           name |-> ModelName(a.encoder_name)])

(* -------------------------------------------------------------- predict *)
\* if self.training: self.eval()
PredictTraining_skip(t) == t
PredictTraining(t) == IF t THEN FALSE ELSE t

\* number of eval() calls predict makes
PredictEvalCalls_always(t) == 1
PredictEvalCalls(t) == IF t THEN 1 ELSE 0

\* SegmentationModel.forward: one mask channel per class, input size kept
ForwardShape(x, cls) == <<x[1], cls, x[3], x[4]>>

\* softmax over dim 1 if self.classes > 1, sigmoid otherwise
Normalisation(cls) == IF cls > 1 THEN "softmax" ELSE "sigmoid"

\* probs.squeeze(0): drops dimension 0 when its size is 1
Squeeze0(shape) == IF shape[1] = 1 THEN Tail(shape) ELSE shape

\* what a predict call has done so far
NoCall ==
    [x |-> <<0, 0, 0, 0>>, training_before |-> FALSE, grad_before |-> FALSE,
     eval_calls |-> 0, forward_log |-> << >>, norm |-> "none",
     probs |-> None, result |-> None, outcome |-> "none"]

\* predict(x) called with self.training = t, gradient recording g and
\* self.classes = cls: the record of the call and the two modes it leaves
PredictRun(x, t, g, cls) ==
    LET t1 == PredictTraining(t)
        begun == [NoCall EXCEPT !.x = x, !.training_before = t, !.grad_before = g,
                                !.eval_calls = PredictEvalCalls(t)]
    IN IF ~Resolves("torch")
       THEN \* with torch.no_grad(): the name torch is not bound
            [call |-> [begun EXCEPT !.outcome = "NameError"],
             training |-> t1, grad_enabled |-> g]
       ELSE \* forward under no_grad, normalisation, squeeze; building the
            \* transform subscripts the method x.size
            [call |-> [begun EXCEPT
                          !.forward_log = <<[training |-> t1, grad_enabled |-> FALSE]>>,
                          !.norm = Normalisation(cls),
                          !.probs = Some(Squeeze0(ForwardShape(x, cls))),
                          !.outcome = "TypeError"],
             training |-> t1, grad_enabled |-> g]

(* ----------------------------------------------------------- operations *)
Init ==
    /\ status = "new"
    /\ error = ""
    /\ args = None
    /\ classes = None
    /\ encoder = None
    /\ decoder = None
    /\ segmentation_head = None
    /\ classification_head = None
    /\ name = None
    /\ training = FALSE
    /\ grad_enabled = TRUE
    /\ op = "none"
    /\ last = NoCall

\* EfficientUnetPlusPlus(...): a new module starts in training mode
New ==
    /\ status = "new"
    /\ \E a \in ConstructorInputs :
        LET r == Construct(a)
        IN /\ args' = Some(a)
           /\ IF r.ok
              THEN /\ status' = "built"
                   /\ error' = ""
                   /\ classes' = Some(r.val[1].classes)
                   /\ encoder' = Some(r.val[1].encoder)
                   /\ decoder' = Some(r.val[1].decoder)
                   /\ segmentation_head' = Some(r.val[1].segmentation_head)
                   /\ classification_head' = r.val[1].classification_head
                   /\ name' = Some(r.val[1].name)
                   /\ training' = TRUE
              ELSE /\ status' = "failed"
                   /\ error' = r.err
                   /\ UNCHANGED <<fields, training>>
    /\ op' = "__init__"
    /\ UNCHANGED <<grad_enabled, last>>

\* model.train()
Train ==
    /\ status = "built"
    /\ training' = TRUE
    /\ op' = "train"
    /\ UNCHANGED <<status, error, args, fields, grad_enabled, last>>

\* model.eval()
Eval ==
    /\ status = "built"
    /\ training' = FALSE
    /\ op' = "eval"
    /\ UNCHANGED <<status, error, args, fields, grad_enabled, last>>

\* torch.set_grad_enabled(b) by the caller
SetGradEnabled ==
    /\ status = "built"
    /\ \E b \in BOOLEAN : grad_enabled' = b
    /\ op' = "set_grad_enabled"
    /\ UNCHANGED <<status, error, args, fields, training, last>>

\* model.predict(x)
Predict ==
    /\ status = "built"
    /\ \E x \in TensorInputs :
        LET r == PredictRun(x, training, grad_enabled, classes[1])
        IN /\ training' = r.training
           /\ grad_enabled' = r.grad_enabled
           /\ last' = r.call
    /\ op' = "predict"
    /\ UNCHANGED <<status, error, args, fields>>

Next == New \/ Train \/ Eval \/ SetGradEnabled \/ Predict

Spec == Init /\ [][Next]_vars

(* ------------------------------------------------------------ shorthand *)
Built == status = "built"
Failed == status = "failed"
Predicted == op = "predict"
LastOf(seq) == seq[Len(seq)]
DepthInRange(d) == d >= MinEncoderDepth /\ d <= MaxEncoderDepth
NoFields ==
    /\ classes = None /\ encoder = None /\ decoder = None
    /\ segmentation_head = None /\ classification_head = None /\ name = None

(* --------------------------------------------------------------- claims *)
\* C1: after a predict call the model's training flag is false, whichever
\* mode the call started in, and every forward call the predict call made ran
\* with the training flag false.
C1_PredictLeavesEval ==
    Predicted =>
        /\ ~training
        /\ \A i \in 1..Len(last.forward_log) : ~last.forward_log[i].training

\* a predict call that started in training mode, called eval() and has ended
C1_Witness ==
    /\ Predicted
    /\ last.training_before
    /\ last.eval_calls = 1
    /\ last.outcome # "none"
    /\ ~training

\* C2: every predict call makes exactly one forward call, that call runs with
\* gradient recording disabled, and the gradient-recording mode the call
\* started with is in force again afterwards.
C2_ForwardOnceUnderNoGrad ==
    Predicted =>
        /\ Len(last.forward_log) = 1
        /\ ~last.forward_log[1].grad_enabled
        /\ grad_enabled = last.grad_before

\* C3: a predict call on an input of shape (batch_size, channels, height,
\* width) returns a result of shape (batch_size, classes, height, width).
C3_ResultShape ==
    Predicted =>
        /\ last.outcome = "return"
        /\ last.result = Some(<<last.x[1], classes[1], last.x[3], last.x[4]>>)

\* C4: a constructed model has an encoder, a decoder and a segmentation head;
\* its classification_head is None exactly when aux_params is None, and
\* otherwise is a head built from aux_params on the encoder's last output
\* channel count.
C4_AuxHeadIffAuxParams ==
    Built =>
        /\ encoder # None /\ decoder # None /\ segmentation_head # None
        /\ (classification_head = None) <=> (args[1].aux_params = None)
        /\ args[1].aux_params # None =>
              /\ classification_head[1].in_channels = LastOf(encoder[1].out_channels)
              /\ classification_head[1].params = args[1].aux_params[1]

\* a model constructed with aux_params given
C4_Witness ==
    /\ Built
    /\ args[1].aux_params # None
    /\ classification_head # None

C7_ChannelWiring ==
    Built =>
        /\ decoder[1].encoder_channels = encoder[1].out_channels
        /\ decoder[1].n_blocks = args[1].encoder_depth
        /\ decoder[1].decoder_channels = args[1].decoder_channels
        /\ segmentation_head[1].in_channels = LastOf(args[1].decoder_channels)
        /\ segmentation_head[1].out_channels = args[1].classes
        /\ classes[1] = args[1].classes
        /\ classification_head # None =>
              classification_head[1].in_channels = LastOf(encoder[1].out_channels)

\* a constructed model with both heads and unequal first and last decoder channels
C7_Witness ==
    /\ Built
    /\ classification_head # None
    /\ args[1].decoder_channels[1] # LastOf(args[1].decoder_channels)
    /\ Len(encoder[1].out_channels) = args[1].encoder_depth + 1

\* C8: a predict call normalises the forward output with softmax when
\* classes > 1 and with sigmoid otherwise.
C8_NormalisedByClasses ==
    Predicted => last.norm = (IF classes[1] > 1 THEN "softmax" ELSE "sigmoid")

C10_PredictFrame ==
    [][op' = "predict" =>
          /\ fields' = fields
          /\ ~training'
          /\ last'.eval_calls = (IF training THEN 1 ELSE 0)
          /\ ~training => training' = training]_vars

\* a predict call on a model already in eval mode, ended in an error
C10_Witness ==
    /\ Predicted
    /\ ~last.training_before
    /\ last.eval_calls = 0
    /\ last.outcome = "NameError"
    /\ ~training

====
